---- MODULE Spec2Model ----
(***************************************************************************)
(* Model of the map-overlaid merge game of src/src/main.ts: the generator  *)
(* (tokenValue), the override store (cellMemo), the interaction handler    *)
(* (onCellClick), the movement facade with its two drivers, and the        *)
(* persisted record (saveGameState / loadGameState / newGame).             *)
(*                                                                         *)
(* Latitude and longitude are fixed-point integers in units of 1e-6        *)
(* degree, so CELL_SIZE (0.0001 degree) is 100 units.  `null` of           *)
(* `number | null` is the integer Null, which is no token value.           *)
(***************************************************************************)
EXTENDS Integers, Sequences, FiniteSets, TLC

\* ===== CONSTANTS (main.ts 9-13) =====
CELL_SIZE == 100
INTERACT_RANGE == 3
WIN_VALUE == 2048
\* const range = 24 of renderGrid: markers exist for the cells this near.
RENDER_RANGE == 24
\* the null of heldToken and of the cell values
Null == -1

\* ===== BOUNDS OF THE MODEL =====
\* movePlayer is only taken while the target cell is within this many moves
\* of the origin cell.
MaxCoord == 1
\* The range check is probed on the cells this far, on each axis, around the
\* cell (-20, 30).
MaxOffset == 5

VARIABLES
  playerLat,   \* main.ts 16
  playerLng,   \* main.ts 17
  heldToken,   \* main.ts 18
  cellMemo,    \* main.ts 21: Map<string, number | null>, a function on its keys
  movement,    \* main.ts 367: [driver |-> [kind, watchId], mode]
  watches,     \* ids of the active navigator.geolocation watches
  storage,     \* localStorage[SAVE_KEY]
  geoSupported,   \* whether navigator.geolocation exists on this host
  storageDenied,  \* whether every localStorage call throws on this host
  alerts,      \* the alert() messages of the last handler, in order
  uncaught,    \* whether the last handler ended by an uncaught exception
  clicked,     \* <<i, j>> when the last handler was onCellClick(i, j), else <<>>
  lastOp       \* the last handler that ran: "load", "click", "moveBy",
               \* "switch", "geo" or "newGame"

vars == <<playerLat, playerLng, heldToken, cellMemo, movement, watches,
          storage, geoSupported, storageDenied, alerts, uncaught, clicked,
          lastOp>>

Abs(x) == IF x < 0 THEN -x ELSE x

\* ===== cellKey (main.ts 23-25): `${i},${j}` =====
cellKey(i, j) == ToString(i) \o "," \o ToString(j)

\* ===== UTILITY FUNCTIONS =====
\* main.ts 59-61: Math.floor(lat / CELL_SIZE); \div rounds down.
latLngToCell(lat, lng) == <<lat \div CELL_SIZE, lng \div CELL_SIZE>>

\* a "center" on the cell's northern edge, which belongs to the next cell
cellToCenterOnEdge(i, j) ==
  <<(i + 1) * CELL_SIZE, ((100 * j + 18) * CELL_SIZE) \div 100>>

\* main.ts 63-65: [(i + 0.82) * CELL_SIZE, (j + 0.18) * CELL_SIZE]
cellToCenter(i, j) ==
  <<((100 * i + 82) * CELL_SIZE) \div 100, ((100 * j + 18) * CELL_SIZE) \div 100>>

\* ===== luck (./_luck.ts): a deterministic hash of the seed into [0,1), =====
\* in thousandths.  The table fixes the cells the model interacts with.
luck(seed) ==
  CASE seed = "0,1"   -> 800
    [] seed = "0,2"   -> 849
    [] seed = "1,0"   -> 850
    [] seed = "4,0"   -> 749
    [] OTHER          -> 100

\* a generator whose second band yields 3
tokenValueThree(i, j) ==
  LET r == luck(cellKey(i, j))
  IN  IF r < 750 THEN Null
      ELSE IF r < 850 THEN 1
      ELSE IF r < 930 THEN 3
      ELSE IF r < 970 THEN 4
      ELSE IF r < 995 THEN 8
      ELSE 16

\* ===== FLYWEIGHT TOKEN GENERATOR (main.ts 75-83) =====
tokenValue(i, j) ==
  LET r == luck(cellKey(i, j))
  IN  IF r < 750 THEN Null
      ELSE IF r < 850 THEN 1
      ELSE IF r < 930 THEN 2
      ELSE IF r < 970 THEN 4
      ELSE IF r < 995 THEN 8
      ELSE 16

\* Map.has / Map.get / Map.set / Map.clear on a function
MapHas(m, key) == key \in DOMAIN m
MapSet(m, key, val) ==
  [k \in (DOMAIN m) \cup {key} |-> IF k = key THEN val ELSE m[k]]
EmptyMap == [k \in {} |-> Null]

\* flyCell written `cellMemo.get(key) ?? tokenValue(i, j)`: an entry that is
\* explicitly empty falls through to the generator.
flyCellCoalesce(memo, i, j) ==
  LET key == cellKey(i, j)
  IN  IF MapHas(memo, key) /\ memo[key] # Null THEN memo[key]
      ELSE tokenValue(i, j)

\* main.ts 85-91, on a given override store
flyCellOf(memo, i, j) ==
  LET key == cellKey(i, j)
  IN  IF MapHas(memo, key) THEN memo[key] ELSE tokenValue(i, j)

flyCell(i, j) == flyCellOf(cellMemo, i, j)

\* withinRange with < for <=: the cells at the radius are refused.
withinRangeStrict(lat, lng, i, j) ==
  LET p == latLngToCell(lat, lng)
  IN  /\ Abs(i - p[1]) < INTERACT_RANGE
      /\ Abs(j - p[2]) < INTERACT_RANGE

\* main.ts 93-97, for a given player position
withinRangeOf(lat, lng, i, j) ==
  LET p == latLngToCell(lat, lng)
  IN  /\ Abs(i - p[1]) <= INTERACT_RANGE
      /\ Abs(j - p[2]) <= INTERACT_RANGE

withinRange(i, j) == withinRangeOf(playerLat, playerLng, i, j)

\* ===== LOCAL STORAGE =====
\* The value under SAVE_KEY: no item, or the JSON text of saveGameState's
\* data object, held as its parsed fields.  cells is the array of [key, val]
\* pairs that Array.from(cellMemo.entries()) yields.
\* Two more kinds are texts saveGameState never writes: "garbage" does not
\* parse, and "badcells" parses to an object with lat, lng and held whose
\* cells, after the pairs listed in cells, goes on with something that is no
\* pair (or is no array at all, cells = <<>>), so that the loop of line 128
\* throws there.
NoItem ==
  [kind |-> "absent", lat |-> 0, lng |-> 0, held |-> Null, cells |-> <<>>,
   mode |-> "buttons"]

RECURSIVE EntriesOf(_, _)
EntriesOf(m, keys) ==
  IF keys = {} THEN <<>>
  ELSE LET k == CHOOSE x \in keys : TRUE
       IN  <<<<k, m[k]>>>> \o EntriesOf(m, keys \ {k})

\* main.ts 101-107: the data object, stringified at line 110
SaveData(lat, lng, held, memo, mode) ==
  [kind |-> "json", lat |-> lat, lng |-> lng, held |-> held,
   cells |-> EntriesOf(memo, DOMAIN memo), mode |-> mode]

\* main.ts 100-114: localStorage.setItem stores the text, or throws where
\* storage is denied, and saveGameState swallows the exception.
\* a save that writes nothing
saveGameStateSkipped(lat, lng, held, memo, mode) == storage

saveGameState(lat, lng, held, memo, mode) ==
  IF storageDenied THEN storage ELSE SaveData(lat, lng, held, memo, mode)

\* a load that drops the entries whose value is null
RECURSIVE SetAllSkipsNull(_, _)
SetAllSkipsNull(m, cells) ==
  IF cells = <<>> THEN m
  ELSE SetAllSkipsNull(IF Head(cells)[2] = Null THEN m
                       ELSE MapSet(m, Head(cells)[1], Head(cells)[2]),
                       Tail(cells))

\* main.ts 128: for (const [key, val] of data.cells ?? []) cellMemo.set(key, val)
RECURSIVE SetAll(_, _)
SetAll(m, cells) ==
  IF cells = <<>> THEN m
  ELSE SetAll(MapSet(m, Head(cells)[1], Head(cells)[2]), Tail(cells))

\* ===== MOVEMENT (FACADE PATTERN) =====
ButtonsDriver == [kind |-> "buttons", watchId |-> Null]

\* navigator.geolocation.watchPosition returns an id no active watch has.
FreshWatchId(ws) == CHOOSE n \in 1..(Cardinality(ws) + 1) : n \notin ws

\* main.ts 312-330: new GeoDriver(), given the active watches
NewGeoDriver(ws) ==
  IF geoSupported
  THEN [driver  |-> [kind |-> "geo", watchId |-> FreshWatchId(ws)],
        watches |-> ws \cup {FreshWatchId(ws)},
        alerts  |-> <<>>]
  ELSE [driver  |-> [kind |-> "geo", watchId |-> Null],
        watches |-> ws,
        alerts  |-> <<"Geolocation not supported on this device.">>]

\* main.ts 303 and 332-337: driver.cleanup(), the watches left active
CleanupWatches(driver, ws) ==
  IF driver.kind = "geo" /\ driver.watchId # Null
  THEN ws \ {driver.watchId}
  ELSE ws

\* the driver after its own cleanup() (watchId = null, main.ts 335)
CleanedDriver(driver) == [driver EXCEPT !.watchId = Null]

\* a setDriver that forgets the old driver's cleanup
SetDriverNoCleanup(mv, ws, d, mode) ==
  [movement |-> [driver |-> d, mode |-> mode], watches |-> ws]

\* main.ts 356-360: MovementFacade.setDriver(d, mode), given the facade and
\* the active watches (d is already constructed): the old driver is cleaned
\* up, then replaced.
SetDriver(mv, ws, d, mode) ==
  [movement |-> [driver |-> d, mode |-> mode],
   watches  |-> CleanupWatches(mv.driver, ws)]

\* The module's initial values (main.ts 16-21 and 367), no watch active.
Defaults ==
  [lat |-> 0, lng |-> 0, held |-> Null, memo |-> EmptyMap,
   movement |-> [driver |-> ButtonsDriver, mode |-> "buttons"],
   watches |-> {}, alerts |-> <<>>]

\* main.ts 116-138: loadGameState on the in-memory state st, item being the
\* value under SAVE_KEY.  getItem throwing, no item, or JSON.parse throwing
\* leaves st as it is; an exception in the loop of line 128 is caught after
\* lines 123-127 and part of the loop have run.
loadGameState(st, item) ==
  IF storageDenied \/ item.kind \in {"absent", "garbage"} THEN st
  ELSE IF item.kind = "badcells"
  THEN [st EXCEPT !.lat = item.lat, !.lng = item.lng, !.held = item.held,
                  !.memo = SetAll(EmptyMap, item.cells)]
  ELSE LET geo == NewGeoDriver(st.watches)
           set == IF item.mode = "geo"
                  THEN SetDriver(st.movement, geo.watches, geo.driver, "geo")
                  ELSE SetDriver(st.movement, st.watches, ButtonsDriver, "buttons")
       IN [lat  |-> item.lat,
           lng  |-> item.lng,
           held |-> item.held,
           memo |-> SetAll(EmptyMap, item.cells),
           movement |-> set.movement,
           watches  |-> set.watches,
           alerts   |-> IF item.mode = "geo" THEN geo.alerts ELSE <<>>]

\* ===== INIT (main.ts 505-512) =====
\* The record an earlier session may have left under SAVE_KEY: none, or a
\* game close to the win threshold.
InitialStorage ==
  { NoItem,
    [kind |-> "json", lat |-> 82, lng |-> 18, held |-> 1024,
     cells |-> << <<"0,1", 1024>>, <<"0,2", 2048>>, <<"1,0", Null>> >>,
     mode |-> "buttons"] }

Init ==
  /\ geoSupported \in BOOLEAN
  /\ storageDenied \in BOOLEAN
  /\ storage \in IF storageDenied THEN {NoItem} ELSE InitialStorage
  /\ LET st == loadGameState(Defaults, storage)
     IN  /\ playerLat = st.lat
         /\ playerLng = st.lng
         /\ heldToken = st.held
         /\ cellMemo = st.memo
         /\ movement = st.movement
         /\ watches = st.watches
         /\ alerts = st.alerts
  /\ uncaught = FALSE
  /\ clicked = <<>>
  /\ lastOp = "load"

\* ===== GAMEPLAY LOGIC (main.ts 162-217) =====
\* renderGrid (main.ts 263-293) puts a clickable marker on the cells within
\* RENDER_RANGE of the player's cell.
Rendered(i, j) ==
  LET p == latLngToCell(playerLat, playerLng)
  IN  Abs(i - p[1]) <= RENDER_RANGE /\ Abs(j - p[2]) <= RENDER_RANGE

MergedAlert(newValue) == "Merged into " \o ToString(newValue) \o "!"
WinAlert == "You win!"

\* The branches of onCellClick: what each does to heldToken and cellMemo,
\* the alerts it shows, and whether it reaches saveGameState.
\* a rejection that also lets go of the held token
RejectedDropsToken(msg) ==
  [held |-> Null, memo |-> cellMemo, saves |-> FALSE, alerts |-> <<msg>>]

\* main.ts 163-166, 181-184, 216: an alert and nothing else
Rejected(msg) ==
  [held |-> heldToken, memo |-> cellMemo, saves |-> FALSE, alerts |-> <<msg>>]

\* a drop that keeps the token in the hand as well
DropBranchKeepsHand(key) ==
  [held |-> heldToken, memo |-> MapSet(cellMemo, key, heldToken),
   saves |-> TRUE, alerts |-> <<>>]

\* a drop that records the cell as empty: the token is lost
DropBranchLosesToken(key) ==
  [held |-> Null, memo |-> MapSet(cellMemo, key, Null),
   saves |-> TRUE, alerts |-> <<>>]

\* main.ts 171-179
DropBranch(key) ==
  [held |-> Null, memo |-> MapSet(cellMemo, key, heldToken),
   saves |-> TRUE, alerts |-> <<>>]

\* a pickup that deletes the cell's entry instead of recording it as empty
PickupBranchDeletes(key, cellValue) ==
  [held |-> cellValue,
   memo |-> [k \in (DOMAIN cellMemo) \ {key} |-> cellMemo[k]],
   saves |-> TRUE, alerts |-> <<>>]

\* a pickup that records no override: the generator's token stays in the cell
PickupBranchNoOverride(key, cellValue) ==
  [held |-> cellValue, memo |-> cellMemo, saves |-> TRUE, alerts |-> <<>>]

\* main.ts 186-194
PickupBranch(key, cellValue) ==
  [held |-> cellValue, memo |-> MapSet(cellMemo, key, Null),
   saves |-> TRUE, alerts |-> <<>>]

\* the win check with > for >=
WinCheckStrict(newValue) ==
  IF newValue > WIN_VALUE THEN <<WinAlert>> ELSE <<>>

\* main.ts 208-210
WinCheck(newValue) ==
  IF newValue >= WIN_VALUE THEN <<WinAlert>> ELSE <<>>

\* a merge that leaves the cell's token where it is
MergeBranchKeepsCell(key, cellValue) ==
  LET newValue == cellValue * 2
  IN  [held |-> newValue, memo |-> cellMemo, saves |-> TRUE,
       alerts |-> <<MergedAlert(newValue)>> \o WinCheck(newValue)]

\* a merge that places the merged token in the cell instead of the hand
MergeBranchPlaced(key, cellValue) ==
  LET newValue == cellValue * 2
  IN  [held |-> Null, memo |-> MapSet(cellMemo, key, newValue),
       saves |-> TRUE,
       alerts |-> <<MergedAlert(newValue)>> \o WinCheck(newValue)]

\* main.ts 196-215
MergeBranch(key, cellValue) ==
  LET newValue == cellValue * 2
  IN  [held |-> newValue, memo |-> MapSet(cellMemo, key, Null),
       saves |-> TRUE,
       alerts |-> <<MergedAlert(newValue)>> \o WinCheck(newValue)]

\* main.ts 162-217: the branch a click on (i, j) takes
ClickEffect(i, j) ==
  LET key == cellKey(i, j)
      cellValue == flyCell(i, j)
  IN  IF ~withinRange(i, j) THEN Rejected("Too far away!")
      ELSE IF cellValue = Null /\ heldToken # Null THEN DropBranch(key)
      ELSE IF cellValue = Null THEN Rejected("Nothing here!")
      ELSE IF heldToken = Null THEN PickupBranch(key, cellValue)
      ELSE IF heldToken = cellValue THEN MergeBranch(key, cellValue)
      ELSE Rejected("Different token value. Cannot merge!")

onCellClick(i, j) ==
  /\ Rendered(i, j)
  /\ clicked' = <<i, j>>
  /\ lastOp' = "click"
  /\ LET e == ClickEffect(i, j)
     IN  /\ heldToken' = e.held
         /\ cellMemo' = e.memo
         /\ alerts' = e.alerts
         /\ IF e.saves
            THEN storage' = saveGameState(playerLat, playerLng, e.held,
                                          e.memo, movement.mode)
            ELSE storage' = storage
  /\ uncaught' = FALSE
  /\ UNCHANGED <<playerLat, playerLng, movement, watches, geoSupported,
                 storageDenied>>

\* ===== PLAYER MOVEMENT (main.ts 370-378) =====
movePlayer(dI, dJ) ==
  LET p == latLngToCell(playerLat, playerLng)
      c == cellToCenter(p[1] + dI, p[2] + dJ)
  IN  /\ Abs(p[1] + dI) + Abs(p[2] + dJ) <= MaxCoord
      /\ playerLat' = c[1]
      /\ playerLng' = c[2]
      /\ storage' = saveGameState(c[1], c[2], heldToken, cellMemo,
                                  movement.mode)

\* main.ts 489-494: the four move buttons
Moves == {<<1, 0>>, <<-1, 0>>, <<0, 1>>, <<0, -1>>}

\* a facade that steps the player whatever the driver
moveByAlwaysMoves(dI, dJ) ==
  /\ movePlayer(dI, dJ)
  /\ alerts' = <<>>
  /\ uncaught' = FALSE
  /\ clicked' = <<>>
  /\ lastOp' = "moveBy"
  /\ UNCHANGED <<heldToken, cellMemo, movement, watches, geoSupported,
                 storageDenied>>

\* main.ts 362-364 with 304-306 and 338-340: movement.moveBy(dI, dJ)
moveBy(dI, dJ) ==
  /\ IF movement.driver.kind = "buttons"
     THEN movePlayer(dI, dJ)
     ELSE UNCHANGED <<playerLat, playerLng, storage>>
  /\ alerts' = <<>>
  /\ uncaught' = FALSE
  /\ clicked' = <<>>
  /\ lastOp' = "moveBy"
  /\ UNCHANGED <<heldToken, cellMemo, movement, watches, geoSupported,
                 storageDenied>>

\* a switch that also empties the hand
switchMovementClearsHand ==
  /\ IF movement.driver.kind = "buttons"
     THEN LET geo == NewGeoDriver(watches)
              set == SetDriver(movement, geo.watches, geo.driver, "geo")
          IN  /\ movement' = set.movement
              /\ watches' = set.watches
              /\ alerts' = geo.alerts
     ELSE LET set == SetDriver(movement, watches, ButtonsDriver, "buttons")
          IN  /\ movement' = set.movement
              /\ watches' = set.watches
              /\ alerts' = <<>>
  /\ heldToken' = Null
  /\ uncaught' = FALSE
  /\ clicked' = <<>>
  /\ lastOp' = "switch"
  /\ UNCHANGED <<playerLat, playerLng, cellMemo, storage, geoSupported,
                 storageDenied>>

\* main.ts 430-440: the movement switch button
switchMovement ==
  /\ IF movement.driver.kind = "buttons"
     THEN LET geo == NewGeoDriver(watches)
              set == SetDriver(movement, geo.watches, geo.driver, "geo")
          IN  /\ movement' = set.movement
              /\ watches' = set.watches
              /\ alerts' = geo.alerts
     ELSE LET set == SetDriver(movement, watches, ButtonsDriver, "buttons")
          IN  /\ movement' = set.movement
              /\ watches' = set.watches
              /\ alerts' = <<>>
  /\ uncaught' = FALSE
  /\ clicked' = <<>>
  /\ lastOp' = "switch"
  /\ UNCHANGED <<playerLat, playerLng, heldToken, cellMemo, storage,
                 geoSupported, storageDenied>>

\* The positions the device reports, in 1e-6 degree.
GeoFixes == {<<-1, 100>>}

\* main.ts 315-323: the watchPosition callback of an active watch
geoUpdate(lat, lng) ==
  /\ watches # {}
  /\ playerLat' = lat
  /\ playerLng' = lng
  /\ alerts' = <<>>
  /\ uncaught' = FALSE
  /\ clicked' = <<>>
  /\ lastOp' = "geo"
  /\ UNCHANGED <<heldToken, cellMemo, movement, watches, storage,
                 geoSupported, storageDenied>>

\* main.ts 140-159 (behind confirm, 455-457).  localStorage.removeItem is
\* outside any try: where storage is denied it throws after the driver's
\* cleanup and the rest of newGame does not run.
newGame ==
  LET cleaned == [movement EXCEPT !.driver = CleanedDriver(movement.driver)]
      ws == CleanupWatches(movement.driver, watches)
  IN  /\ IF storageDenied
         THEN /\ movement' = cleaned
              /\ watches' = ws
              /\ uncaught' = TRUE
              /\ UNCHANGED <<playerLat, playerLng, heldToken, cellMemo, storage>>
         ELSE LET set == SetDriver(cleaned, ws, ButtonsDriver, "buttons")
              IN  /\ cellMemo' = EmptyMap
                  /\ heldToken' = Null
                  /\ playerLat' = 0
                  /\ playerLng' = 0
                  /\ movement' = set.movement
                  /\ watches' = set.watches
                  /\ uncaught' = FALSE
                  /\ storage' = saveGameState(0, 0, Null, EmptyMap,
                                              set.movement.mode)
      /\ alerts' = <<>>
      /\ clicked' = <<>>
      /\ lastOp' = "newGame"
      /\ UNCHANGED <<geoSupported, storageDenied>>

\* A page reload: the script runs again from its initial values and
\* loadGameState (main.ts 507) reads what is under SAVE_KEY; the watches of
\* the page that went away are gone.
reload ==
  LET st == loadGameState(Defaults, storage)
  IN  /\ playerLat' = st.lat
      /\ playerLng' = st.lng
      /\ heldToken' = st.held
      /\ cellMemo' = st.memo
      /\ movement' = st.movement
      /\ watches' = st.watches
      /\ alerts' = st.alerts
      /\ uncaught' = FALSE
      /\ clicked' = <<>>
      /\ lastOp' = "load"
      /\ UNCHANGED <<storage, geoSupported, storageDenied>>

\* The cells of the grid the model clicks on.
Grid == {<<0, 1>>, <<0, 2>>, <<1, 0>>, <<4, 0>>}

Next ==
  \/ \E c \in Grid : onCellClick(c[1], c[2])
  \/ \E m \in Moves : moveBy(m[1], m[2])
  \/ switchMovement
  \/ \E g \in GeoFixes : geoUpdate(g[1], g[2])
  \/ newGame
  \/ reload

Spec == Init /\ [][Next]_vars

\* ===== THE RANGE CHECK ON ITS OWN =====
\* The player stands, hand empty, in a stretch of the grid the generator
\* leaves empty, on positions that fall on, just below and inside cell
\* borders, for negative latitudes and positive longitudes; the device put
\* the player there (fresh game, switch to geolocation, one position
\* update).  Every cell of Window is clicked.
RangeLats == {-2101, -2001, -2000, -1918, -1901, -1900, -1801}
RangeLngs == {2999, 3000, 3018, 3099, 3100, 3199}
Window ==
  {<<-20 + a, 30 + b>> : a \in -MaxOffset..MaxOffset, b \in -MaxOffset..MaxOffset}

InitRange ==
  /\ geoSupported = TRUE
  /\ storageDenied = FALSE
  /\ storage = NoItem
  /\ playerLat \in RangeLats
  /\ playerLng \in RangeLngs
  /\ heldToken = Null
  /\ cellMemo = EmptyMap
  /\ movement = [driver |-> [kind |-> "geo", watchId |-> 1], mode |-> "geo"]
  /\ watches = {1}
  /\ alerts = <<>>
  /\ uncaught = FALSE
  /\ clicked = <<>>
  /\ lastOp = "geo"

NextRange == \E c \in Window : onCellClick(c[1], c[2])

SpecRange == InitRange /\ [][NextRange]_vars

\* ===== LOADING ON ITS OWN =====
\* What a page load makes of the texts that can be under SAVE_KEY: saved
\* games, and texts this program did not write (another version of it, or
\* another page of the origin, did).
Garbage ==
  [kind |-> "garbage", lat |-> 0, lng |-> 0, held |-> Null, cells |-> <<>>,
   mode |-> "buttons"]

LoadRecords ==
  { NoItem, Garbage,
    SaveData(0, 0, Null, EmptyMap, "buttons"),
    SaveData(410, 90, 4, MapSet(EmptyMap, "2,2", Null), "buttons"),
    SaveData(410, 90, 4, MapSet(EmptyMap, "2,2", Null), "geo"),
    SaveData(-1, 100, Null, MapSet(MapSet(EmptyMap, "0,1", Null), "4,0", 1),
             "geo"),
    [kind |-> "badcells", lat |-> 410, lng |-> 90, held |-> 4,
     cells |-> <<>>, mode |-> "geo"],
    [kind |-> "badcells", lat |-> 0, lng |-> 0, held |-> Null,
     cells |-> << <<"0,1", Null>> >>, mode |-> "buttons"],
    [kind |-> "badcells", lat |-> 82, lng |-> 18, held |-> 2,
     cells |-> << <<"0,1", Null>>, <<"0,2", Null>> >>, mode |-> "buttons"] }

InitLoad ==
  /\ geoSupported \in BOOLEAN
  /\ storageDenied \in BOOLEAN
  /\ storage \in IF storageDenied THEN {NoItem} ELSE LoadRecords
  /\ LET st == loadGameState(Defaults, storage)
     IN  /\ playerLat = st.lat
         /\ playerLng = st.lng
         /\ heldToken = st.held
         /\ cellMemo = st.memo
         /\ movement = st.movement
         /\ watches = st.watches
         /\ alerts = st.alerts
  /\ uncaught = FALSE
  /\ clicked = <<>>
  /\ lastOp = "load"

\* Something other than this page puts a text under SAVE_KEY.
overwriteItem(item) ==
  /\ ~storageDenied
  /\ storage' = item
  /\ UNCHANGED <<playerLat, playerLng, heldToken, cellMemo, movement, watches,
                 geoSupported, storageDenied, alerts, uncaught, clicked,
                 lastOp>>

NextLoad ==
  \/ \E item \in LoadRecords : overwriteItem(item)
  \/ reload

SpecLoad == InitLoad /\ [][NextLoad]_vars

\* ===== PROPERTIES =====
\* The kind of interaction a click on c is, read off the state before it.
InRange(c) ==
  LET p == latLngToCell(playerLat, playerLng)
  IN  Abs(c[1] - p[1]) <= INTERACT_RANGE /\ Abs(c[2] - p[2]) <= INTERACT_RANGE
Effective(c) == flyCell(c[1], c[2])
IsPickup(c) == InRange(c) /\ heldToken = Null /\ Effective(c) # Null
IsDrop(c) == InRange(c) /\ heldToken # Null /\ Effective(c) = Null
IsMerge(c) == InRange(c) /\ heldToken # Null /\ Effective(c) = heldToken
IsRejected(c) ==
  \/ ~InRange(c)
  \/ heldToken = Null /\ Effective(c) = Null
  \/ heldToken # Null /\ Effective(c) # Null /\ Effective(c) # heldToken
Interact(c) == onCellClick(c[1], c[2])
Key(c) == cellKey(c[1], c[2])
\* the override store records c with value v
Records(memo, c, v) == Key(c) \in DOMAIN memo /\ memo[Key(c)] = v

\* C1: a click on an in-range cell whose effective value equals the held
\* value h leaves the player holding 2h and the cell recorded as explicitly
\* empty in the override store.
C1_Merge ==
  [][\A c \in Grid :
       (Interact(c) /\ IsMerge(c)) =>
         /\ heldToken' = 2 * heldToken
         /\ Records(cellMemo', c, Null)]_vars

\* The scenario of the spec: from the origin, (0,1) was picked up and merged
\* with (0,2).
C1_Witness ==
  /\ clicked = <<0, 2>>
  /\ alerts = <<"Merged into 2!">>
  /\ heldToken = 2
  /\ Records(cellMemo, <<0, 1>>, Null)
  /\ Records(cellMemo, <<0, 2>>, Null)
  /\ latLngToCell(playerLat, playerLng) = <<0, 0>>

\* C2: a click with an empty hand on an in-range cell of effective value v
\* leaves the player holding v and the cell recorded as explicitly empty, so
\* its effective value is empty afterwards whatever the generator yields.
C2_Pickup ==
  [][\A c \in Grid :
       (Interact(c) /\ IsPickup(c)) =>
         /\ heldToken' = Effective(c)
         /\ Records(cellMemo', c, Null)
         /\ flyCellOf(cellMemo', c[1], c[2]) = Null]_vars

\* (0,1), where the generator yields 1, was just picked up.
C2_Witness ==
  /\ clicked = <<0, 1>>
  /\ alerts = <<>>
  /\ heldToken = 1
  /\ tokenValue(0, 1) = 1
  /\ Records(cellMemo, <<0, 1>>, Null)
  /\ flyCell(0, 1) = Null

\* C3: a click while holding h on an in-range cell whose effective value is
\* empty empties the hand and records the cell with h, so its effective value
\* is h afterwards; and no click that empties the hand is on a cell whose
\* effective value was non-empty.
C3_Drop ==
  [][\A c \in Grid :
       /\ (Interact(c) /\ IsDrop(c)) =>
            /\ heldToken' = Null
            /\ Records(cellMemo', c, heldToken)
            /\ flyCellOf(cellMemo', c[1], c[2]) = heldToken
       /\ (Interact(c) /\ heldToken # Null /\ heldToken' = Null) =>
            Effective(c) = Null]_vars

\* A token was just dropped into (4,0), which the generator leaves empty.
C3_Witness ==
  /\ clicked = <<4, 0>>
  /\ alerts = <<>>
  /\ heldToken = Null
  /\ tokenValue(4, 0) = Null
  /\ Key(<<4, 0>>) \in DOMAIN cellMemo
  /\ cellMemo[Key(<<4, 0>>)] # Null

\* C4: a rejected click (out of range; empty hand on an empty cell; a held
\* value on a different non-empty value) changes neither the held token, nor
\* the override store, nor the player position, nor the movement mode, nor
\* the persisted record.
C4_RejectedChangesNothing ==
  [][\A c \in Grid :
       (Interact(c) /\ IsRejected(c)) =>
         UNCHANGED <<heldToken, cellMemo, playerLat, playerLng, movement,
                     storage>>]_vars

\* The player holds 1 and has just clicked (1,0), which holds 2.
C4_Witness ==
  /\ clicked = <<1, 0>>
  /\ alerts = <<"Different token value. Cannot merge!">>
  /\ heldToken = 1
  /\ flyCell(1, 0) = 2

\* C5: a click on (i, j) passes the range check exactly when both |i - pi|
\* and |j - pj| are at most INTERACT_RANGE, (pi, pj) being the player's cell.
C5_SquareRange ==
  [][LET c == clicked'
         p == latLngToCell(playerLat, playerLng)
     IN  (c \in Window /\ Interact(c)) =>
           ((alerts' # <<"Too far away!">>) <=>
              /\ c[1] - p[1] \in -INTERACT_RANGE..INTERACT_RANGE
              /\ c[2] - p[2] \in -INTERACT_RANGE..INTERACT_RANGE)]_vars

\* A click at offset (-3, +3), the radius on both axes, from a player whose
\* latitude lies just below a cell border, got past the range check.
C5_Witness ==
  /\ playerLat = -2001
  /\ playerLng = 3000
  /\ clicked = <<-24, 33>>
  /\ alerts = <<"Nothing here!">>

\* C6: the effective value of a cell is its override entry when it has one
\* (an explicitly empty entry too) and the generator's value otherwise; and a
\* cell with no override entry before and after a step has the same
\* effective value before and after it.
TwoTier ==
  \A c \in Grid :
    Effective(c) = IF Key(c) \in DOMAIN cellMemo
                   THEN cellMemo[Key(c)]
                   ELSE tokenValue(c[1], c[2])

C6_TwoTierLookup ==
  /\ []TwoTier
  /\ [][\A c \in Grid :
          (Key(c) \notin DOMAIN cellMemo /\ Key(c) \notin DOMAIN cellMemo') =>
            flyCellOf(cellMemo', c[1], c[2]) = Effective(c)]_vars

\* An explicitly empty entry shadows the generator's 1 at (0,1) and a value
\* entry shadows the generator's empty (4,0), while (0,2) has no entry and
\* still shows the generator's 1 after clicks, moves and a mode switch.
C6_Witness ==
  /\ tokenValue(0, 1) = 1 /\ Records(cellMemo, <<0, 1>>, Null)
  /\ flyCell(0, 1) = Null
  /\ tokenValue(4, 0) = Null /\ Records(cellMemo, <<4, 0>>, 1)
  /\ flyCell(4, 0) = 1
  /\ Key(<<0, 2>>) \notin DOMAIN cellMemo /\ flyCell(0, 2) = 1
  /\ movement.mode = "geo"

\* C7: the win alert is shown by a handler exactly when the handler is a
\* click that merges into a value >= WIN_VALUE; nothing shows it at load.
HasWin(as) == \E n \in 1..Len(as) : as[n] = WinAlert

C7_WinSignal ==
  /\ ~HasWin(alerts)
  /\ [][HasWin(alerts') <=>
          \E c \in Grid :
            Interact(c) /\ IsMerge(c) /\ 2 * heldToken >= WIN_VALUE]_vars

\* Two winning merges in a row: 1024 + 1024, then 2048 + 2048 won again.
C7_Witness ==
  /\ clicked = <<0, 2>>
  /\ heldToken = 2 * WIN_VALUE
  /\ alerts = <<MergedAlert(2 * WIN_VALUE), WinAlert>>
  /\ Records(cellMemo, <<0, 1>>, Null)
  /\ Records(cellMemo, <<0, 2>>, Null)

\* C8 as stated: a drop and a merge both leave the hand empty, and an
\* accepted click that leaves the player holding a token is a pickup.
C8_AsStated ==
  [][\A c \in Grid :
       Interact(c) =>
         /\ (IsDrop(c) \/ IsMerge(c)) => heldToken' = Null
         /\ (heldToken' # Null /\ ~IsRejected(c)) => IsPickup(c)]_vars

\* C8 amended: a drop leaves the hand empty, a merge leaves the player
\* holding the merged token 2h, and a click after which the hand is
\* non-empty when it was empty before is a pickup.
C8_HandAfterInteraction ==
  [][\A c \in Grid :
       Interact(c) =>
         /\ IsDrop(c) => heldToken' = Null
         /\ IsMerge(c) => heldToken' = 2 * heldToken
         /\ (heldToken = Null /\ heldToken' # Null) => IsPickup(c)]_vars

\* The hand was emptied by a drop into (0,1), from where the token had been
\* picked up before.
C8_Witness ==
  /\ clicked = <<0, 1>>
  /\ alerts = <<>>
  /\ heldToken = Null
  /\ Records(cellMemo, <<0, 1>>, 1)
  /\ storage.kind = "json" /\ storage.held = Null

\* C9: over the grid, the held value plus the effective values of the
\* cells is the same before and after every click; a merge turns two tokens
\* of value h into one of value 2h (one token fewer) and every other click
\* keeps the number of tokens.
Val(v) == IF v = Null THEN 0 ELSE v
One(v) == IF v = Null THEN 0 ELSE 1

RECURSIVE GridValue(_, _)
GridValue(memo, cells) ==
  IF cells = {} THEN 0
  ELSE LET c == CHOOSE x \in cells : TRUE
       IN  Val(flyCellOf(memo, c[1], c[2])) + GridValue(memo, cells \ {c})

RECURSIVE GridTokens(_, _)
GridTokens(memo, cells) ==
  IF cells = {} THEN 0
  ELSE LET c == CHOOSE x \in cells : TRUE
       IN  One(flyCellOf(memo, c[1], c[2])) + GridTokens(memo, cells \ {c})

TotalValue(held, memo) == Val(held) + GridValue(memo, Grid)
TokenCount(held, memo) == One(held) + GridTokens(memo, Grid)

C9_Conservation ==
  [][\A c \in Grid :
       Interact(c) =>
         /\ TotalValue(heldToken', cellMemo') = TotalValue(heldToken, cellMemo)
         /\ TokenCount(heldToken', cellMemo') =
              IF IsMerge(c) THEN TokenCount(heldToken, cellMemo) - 1
              ELSE TokenCount(heldToken, cellMemo)]_vars

\* The generator's 1, 1 and 2 have been merged into the one token 4 in the
\* hand; every cell of the grid is empty.
C9_Witness ==
  /\ clicked = <<1, 0>>
  /\ alerts = <<"Merged into 4!">>
  /\ heldToken = 4
  /\ \A c \in Grid : Effective(c) = Null
  /\ TotalValue(heldToken, cellMemo) = TotalValue(Null, EmptyMap)

\* C10: within a session (no page reload) a step of a click, a move, a
\* position update or a mode switch never removes a key of the override
\* store, and a step that removes one is newGame.
C10_OverridesOnlyGrow ==
  /\ [][( \/ \E c \in Grid : Interact(c)
          \/ \E m \in Moves : moveBy(m[1], m[2])
          \/ \E g \in GeoFixes : geoUpdate(g[1], g[2])
          \/ switchMovement )
        => (DOMAIN cellMemo) \subseteq (DOMAIN cellMemo')]_vars
  /\ [][ ~((DOMAIN cellMemo) \subseteq (DOMAIN cellMemo'))
         => (newGame \/ reload) ]_vars

\* All four cells of the grid have an entry, kept through a switch to
\* geolocation and a position update.
C10_Witness ==
  /\ DOMAIN cellMemo = {Key(c) : c \in Grid}
  /\ movement.mode = "geo"
  /\ playerLat = -1
  /\ clicked = <<>>

\* ---------------------------------------------------------------------------
\* C11  Save/load round trip.  Whatever the game state, the record that
\* saveGameState writes for it, read back by loadGameState on a freshly
\* started page, gives the same position, the same held token, the same
\* override entries (an explicit-empty entry stays an explicit-empty entry)
\* and the same movement mode.
\* ---------------------------------------------------------------------------
Restored ==
  loadGameState(Defaults,
                SaveData(playerLat, playerLng, heldToken, cellMemo,
                         movement.mode))

C11_RoundTrip ==
  ~storageDenied =>
     /\ Restored.lat = playerLat
     /\ Restored.lng = playerLng
     /\ Restored.held = heldToken
     /\ Restored.memo = cellMemo
     /\ Restored.movement.mode = movement.mode

\* a page reloaded from a record written after a step north, with a token in
\* the hand and an emptied cell on the grid
C11_Witness ==
  /\ lastOp = "load"
  /\ ~storageDenied
  /\ playerLat = 182
  /\ heldToken # Null
  /\ \E k \in DOMAIN cellMemo : cellMemo[k] = Null
  /\ storage = SaveData(playerLat, playerLng, heldToken, cellMemo,
                        movement.mode)

\* ---------------------------------------------------------------------------
\* C12  Every state-changing interaction is persisted.  Where the storage
\* write succeeds, a pickup, a drop or a merge leaves under SAVE_KEY a record
\* whose held token and override entries are those in memory when the
\* handler returns (and whose position and mode are the current ones too).
\* ---------------------------------------------------------------------------
C12_InteractionPersisted ==
  [][\A c \in Grid :
       (Interact(c) /\ ~storageDenied
          /\ (IsPickup(c) \/ IsDrop(c) \/ IsMerge(c))) =>
         /\ storage'.kind = "json"
         /\ storage'.held = heldToken'
         /\ SetAll(EmptyMap, storage'.cells) = cellMemo'
         /\ Len(storage'.cells) = Cardinality(DOMAIN cellMemo')
         /\ storage'.lat = playerLat' /\ storage'.lng = playerLng'
         /\ storage'.mode = movement'.mode]_vars

\* the first pickup of a fresh game, on disk as in memory
C12_Witness ==
  /\ lastOp = "click"
  /\ clicked = <<0, 1>>
  /\ heldToken = 1
  /\ storage.kind = "json"
  /\ storage.held = 1
  /\ storage.cells = << <<"0,1", Null>> >>
  /\ cellMemo = MapSet(EmptyMap, "0,1", Null)

\* ---------------------------------------------------------------------------
\* C13  A movement-mode switch is recorded in the persisted state: when the
\* page is reloaded right after a switch (storage working, position
\* tracking supported), the variant
\* active after the reload is the one that was switched to.
\* The switch handler (main.ts 430-440) never calls saveGameState.
\* ---------------------------------------------------------------------------
C13_SwitchRecorded ==
  [][(reload /\ lastOp = "switch" /\ ~storageDenied /\ geoSupported) =>
        /\ movement'.mode = movement.mode
        /\ movement'.driver.kind = movement.driver.kind]_vars

\* ---------------------------------------------------------------------------
\* C14  While the device-tracked driver is active, a manual step request
\* raises nothing and changes nothing: position, held token, override
\* store, movement mode and driver, the subscription and the persisted
\* record are all as before.
\* ---------------------------------------------------------------------------
C14_StepIgnoredUnderGeo ==
  [][\A m \in Moves :
       (moveBy(m[1], m[2]) /\ movement.mode = "geo") =>
         /\ UNCHANGED <<playerLat, playerLng, heldToken, cellMemo, movement,
                        watches, storage>>
         /\ uncaught' = FALSE]_vars

\* a step request that arrived while a position feed was driving the player
C14_Witness ==
  /\ lastOp = "moveBy"
  /\ movement.mode = "geo"
  /\ movement.driver.kind = "geo"
  /\ watches # {}
  /\ heldToken # Null

\* ---------------------------------------------------------------------------
\* C15  Subscription exclusivity.  In every reachable state at most one
\* position-feed subscription is active and it belongs to the current
\* driver; none is active while the mode is manual, so every way out of the
\* device-tracked variant has released it and no position callback can move
\* the player in manual mode.
\* ---------------------------------------------------------------------------
C15_SubscriptionExclusive ==
  /\ Cardinality(watches) <= 1
  /\ movement.mode = "buttons" => watches = {}
  /\ watches # {} => /\ movement.driver.kind = "geo"
                     /\ watches = {movement.driver.watchId}
  /\ \A g \in GeoFixes : ENABLED geoUpdate(g[1], g[2]) => movement.mode = "geo"

\* back in manual mode by the switch button, the feed released
C15_Witness ==
  /\ lastOp = "switch"
  /\ geoSupported
  /\ ~storageDenied
  /\ movement.mode = "buttons"
  /\ watches = {}
  /\ playerLat = -1

\* ---------------------------------------------------------------------------
\* C16  On a host without position tracking, a request to switch to the
\* device-tracked variant notifies the user and the driver stays what it
\* was: the mode remains manual and the manual driver stays in place.
\* The handler (main.ts 433) calls setDriver(new GeoDriver(), "geo") whether
\* or not the constructor found navigator.geolocation.
\* ---------------------------------------------------------------------------
C16_UnsupportedKeepsManual ==
  [][(switchMovement /\ ~geoSupported /\ movement.mode = "buttons") =>
        /\ alerts' # <<>>
        /\ movement'.mode = "buttons"
        /\ movement'.driver.kind = "buttons"]_vars

\* ---------------------------------------------------------------------------
\* C17  Loading is all-or-nothing.  A page load either restores the whole
\* record under SAVE_KEY or, when the record is absent, does not parse or is
\* malformed, leaves exactly the fresh-game default: origin, empty hand, no
\* overrides, manual movement.
\* loadGameState assigns playerLat, playerLng, heldToken and clears cellMemo
\* (main.ts 123-127) before the loop and setDriver that may still throw.
\* ---------------------------------------------------------------------------
FreshGame(lat, lng, held, memo, mv) ==
  /\ lat = 0 /\ lng = 0 /\ held = Null /\ memo = EmptyMap
  /\ mv = [driver |-> ButtonsDriver, mode |-> "buttons"]

C17_LoadAllOrNothing ==
  [][(reload /\ storage.kind # "json") =>
        FreshGame(playerLat', playerLng', heldToken', cellMemo',
                  movement')]_vars

\* ---------------------------------------------------------------------------
\* C18  A persistence failure is never fatal.  On a host where every storage
\* call throws, no handler lets an exception escape, and each completes the
\* in-memory change it makes with working storage; for new game that is the
\* reset to origin, empty hand, no overrides and manual movement.
\* newGame calls localStorage.removeItem outside any try (main.ts 143).
\* ---------------------------------------------------------------------------
C18_PersistenceFailureNotFatal ==
  [][storageDenied =>
        /\ uncaught' = FALSE
        /\ lastOp' = "newGame" =>
             /\ playerLat' = 0 /\ playerLng' = 0
             /\ heldToken' = Null /\ cellMemo' = EmptyMap]_vars

\* ---------------------------------------------------------------------------
\* C19  New game resets everything.  From any reachable state, after the
\* new-game action the player is at the origin, the hand is empty, the
\* override store has no entries, the mode is manual with no subscription,
\* and (where storage can be written) the persisted record is that of the
\* reset state.
\* ---------------------------------------------------------------------------
C19_NewGameResets ==
  [][newGame =>
        /\ FreshGame(playerLat', playerLng', heldToken', cellMemo', movement')
        /\ watches' = {}
        /\ ~storageDenied =>
             storage' = SaveData(0, 0, Null, EmptyMap, "buttons")]_vars

\* ---------------------------------------------------------------------------
\* C20  Manual step.  As stated: while the manual driver is active, a step
\* request (dI, dJ) with the player in cell (i, j) leaves the player in cell
\* (i + dI, j + dJ), and the new position is in the persisted record when
\* the handler returns.
\* ---------------------------------------------------------------------------
StepsTo(m) ==
  LET p == latLngToCell(playerLat, playerLng)
  IN  latLngToCell(playerLat', playerLng') = <<p[1] + m[1], p[2] + m[2]>>

PositionPersisted ==
  /\ storage'.kind = "json"
  /\ storage'.lat = playerLat'
  /\ storage'.lng = playerLng'

C20_AsStated ==
  [][\A m \in Moves :
       (moveBy(m[1], m[2]) /\ movement.mode = "buttons") =>
         StepsTo(m) /\ PositionPersisted]_vars

\* C20 as the code has it: the player lands in cell (i + dI, j + dJ) on
\* every host; the new position is in the persisted record when the handler
\* returns on the hosts where the storage write succeeds (elsewhere the
\* failure is swallowed and the record is left as it was).
C20_ManualStep ==
  [][\A m \in Moves :
       (moveBy(m[1], m[2]) /\ movement.mode = "buttons") =>
         /\ StepsTo(m)
         /\ IF storageDenied THEN storage' = storage
            ELSE PositionPersisted]_vars

\* a step north from the origin cell, on disk
C20_Witness ==
  /\ lastOp = "moveBy"
  /\ movement.mode = "buttons"
  /\ latLngToCell(playerLat, playerLng) = <<1, 0>>
  /\ playerLat = 182 /\ playerLng = 18
  /\ storage.kind = "json"
  /\ storage.lat = 182 /\ storage.lng = 18

\* ---------------------------------------------------------------------------
\* C21  Separation of effects.  No click on a cell (pickup, drop, merge or
\* rejection) changes the player position or the movement mode and driver;
\* no manual step, no device position update and no mode switch changes
\* the held token or any override entry.
\* ---------------------------------------------------------------------------
C21_SeparationOfEffects ==
  [][/\ (\E c \in Grid : Interact(c)) =>
          UNCHANGED <<playerLat, playerLng, movement, watches>>
     /\ (\/ \E m \in Moves : moveBy(m[1], m[2])
         \/ \E g \in GeoFixes : geoUpdate(g[1], g[2])
         \/ switchMovement) =>
          UNCHANGED <<heldToken, cellMemo>>]_vars

\* back in manual mode by the switch button at the position the device
\* reported, the token still in the hand and the overrides still recorded
C21_Witness ==
  /\ lastOp = "switch"
  /\ movement.mode = "buttons"
  /\ playerLat = -1 /\ playerLng = 100
  /\ heldToken # Null
  /\ cellMemo # EmptyMap

\* ---------------------------------------------------------------------------
\* C22  Token values stay powers of two.  In every reachable state the held
\* token is none or a positive power of two, and every override entry is
\* explicit-empty or a positive power of two.
\* ---------------------------------------------------------------------------
RECURSIVE IsPowerOfTwo(_)
IsPowerOfTwo(n) ==
  IF n <= 0 THEN FALSE
  ELSE IF n = 1 THEN TRUE
  ELSE n % 2 = 0 /\ IsPowerOfTwo(n \div 2)

TokenOrEmpty(v) == v = Null \/ IsPowerOfTwo(v)

C22_PowersOfTwo ==
  /\ TokenOrEmpty(heldToken)
  /\ \A k \in DOMAIN cellMemo : TokenOrEmpty(cellMemo[k])

\* a generated 2 picked up at (1,0) and put down on the emptied cell (0,1)
C22_Witness ==
  /\ lastOp = "click"
  /\ clicked = <<0, 1>>
  /\ heldToken = Null
  /\ Records(cellMemo, <<0, 1>>, 2)
  /\ Records(cellMemo, <<1, 0>>, Null)

====
